---- MODULE Spec2Model ----
(***************************************************************************)
(* A model of the ViT training driver (main.py): one worker process from   *)
(* argument resolution through resume, the train loop, periodic validation *)
(* and checkpointing (Spec, FairSpec); the launch of the worker processes  *)
(* of one job and their checkpoint writes (SpecTopo); and the AverageMeter *)
(* with its collective all_reduce (SpecMeter); one training step with its  *)
(* gradient arithmetic (SpecStep); validate() on the processes of a group  *)
(* (SpecVal); and the token bookkeeping of SimpleVisionTransformer         *)
(* (SpecVit).                                                              *)
(***************************************************************************)
EXTENDS Integers, Sequences, FiniteSets, TLC

(***************************************************************************)
(* Bounds of the model.                                                    *)
(***************************************************************************)
\* largest training-set size n = len(train_dataset)
MaxTrain == 4
\* validate() returns top1.avg; the model draws it from 0..MaxAcc
MaxAcc == 2
\* the epoch counter of infinite_loader is kept modulo MaxEpoch + 1
MaxEpoch == 5
\* most nodes of a job, and most accelerators of a node
MaxNodes == 2
MaxGpus == 2
\* number of update() calls a meter receives between resets
MaxUpdates == 2
\* largest value passed to AverageMeter.update
MaxVal == 1
\* largest --batch-size of a job
MaxBatchSize == 4
\* most samples of one physical batch, and most steps of train(), in SpecStep
MaxBatchLen == 4
MaxSteps == 2
\* largest validation data set of SpecVal
MaxValSet == 4
\* largest image side (in pixels) and largest --register of SpecVit
MaxImage == 4
MaxRegister == 2

(***************************************************************************)
(* Helpers.                                                                *)
(***************************************************************************)
Max(a, b) == IF a >= b THEN a ELSE b

\* Python's int(a / b) for a >= 0, b > 0
IntDiv(a, b) == a \div b

\* Python's round(num / den) for num >= 0, den > 0: round half to even
PyRound(num, den) ==
    LET q == num \div den
        r == num % den
    IN  IF 2 * r < den THEN q
        ELSE IF 2 * r > den THEN q + 1
        ELSE IF q % 2 = 0 THEN q ELSE q + 1

\* Python's a % b for a >= 0 and b # 0: the result has the sign of b
PyMod(a, b) == IF b > 0 THEN a % b ELSE 0 - ((0 - a) % (0 - b))

\* ceil(a / b), as DistributedSampler computes its per-rank share
CeilDiv(a, b) == (a + b - 1) \div b

(***************************************************************************)
(* State.                                                                  *)
(***************************************************************************)
VARIABLES
    \* -- one worker process (Spec) --
    cli,            \* the parsed command line, as main() receives it
    env,            \* the machine: accelerators, RANK / WORLD_SIZE, dataset size
    args,           \* the args namespace as main() and main_worker() rewrite it
    run,            \* "first": a fresh invocation; "resumed": a later one with --resume
    pc,             \* position of the worker in main_worker / train
    g_best_acc1,    \* the module-level best_acc1 (main.py line 189)
    best_acc1,      \* train()'s local best_acc1
    is_best,        \* train()'s local is_best of the last evaluation
    step,           \* loop variable of train()
    total_steps,
    loader,         \* [len, pos, buf, epoch]: train_loader seen through infinite_loader
    model,          \* [params, training]: parameter version and train/eval mode
    optimizer,      \* [state, mode]: update count and schedule-free train/eval mode
    scheduler,      \* last_epoch of the SequentialLR, or None
    scaler,         \* update count of the GradScaler, or None
    fs,             \* the checkpoint directory
    hist,           \* what this invocation has done so far (observation only)
    \* -- the processes of one job (SpecTopo) --
    job,            \* the launches (one per invocation of main) of the job
    procs,          \* per launch: whether main() has run
    workers,        \* per worker: its resolved args and position
    writes,         \* checkpoint files written: <<worker, file>>
    \* -- meters (SpecMeter) --
    meters,         \* per process: val, sum, count, avg of its AverageMeter
    mpc,            \* per process: position around the collective
    wire,           \* per process: the tensor it contributed to dist.all_reduce
    mlog,           \* per process: the (value, weight) updates since its last reset
    \* -- one training step in detail (SpecStep) --
    trainer,        \* gradients, scaler and the calls made by the steps of train()
    \* -- validate() on every process of a group (SpecVal) --
    validation,     \* configuration, data set, per-process meters and positions
    \* -- SimpleVisionTransformer (SpecVit) --
    vit             \* the module's attributes and the tensor shapes of one forward

runVars   == <<cli, env, args, run, pc, g_best_acc1, best_acc1, is_best, step,
               total_steps, loader, model, optimizer, scheduler, scaler, fs, hist>>
topoVars  == <<job, procs, workers, writes>>
meterVars == <<meters, mpc, wire, mlog>>
moreVars  == <<trainer, validation, vit>>
vars      == <<runVars, topoVars, meterVars, moreVars>>

\* Python's None for an integer-valued object
None == -1

(***************************************************************************)
(* main(): resolving the distributed configuration (lines 204-262).        *)
(* A launch is one invocation of the script: its command line and its      *)
(* environment.                                                            *)
(***************************************************************************)
Launch(mpd, world_size, rank, gpu, env_world, env_rank, cuda, device_count) ==
    [multiprocessing_distributed |-> mpd, world_size |-> world_size, rank |-> rank,
     gpu |-> gpu, WORLD_SIZE |-> env_world, RANK |-> env_rank,
     cuda |-> cuda, device_count |-> device_count]

\* lines 226-227: args.world_size = int(os.environ.get("WORLD_SIZE", 1))
EnvWorldSize(l) == IF l.world_size = -1
                   THEN (IF l.WORLD_SIZE = None THEN 1 ELSE l.WORLD_SIZE)
                   ELSE l.world_size

\* lines 231-236
NgpusPerNode(l) == IF l.cuda THEN l.device_count ELSE 1

\* line 229
Distributed(l) == EnvWorldSize(l) > 1 \/ l.multiprocessing_distributed

\* lines 253-256
WorldSize(l) == IF l.multiprocessing_distributed
                THEN NgpusPerNode(l) * EnvWorldSize(l)
                ELSE EnvWorldSize(l)

\* lines 253-262: the gpu argument of every main_worker the launch starts
SpawnedGpus(l) == IF l.multiprocessing_distributed
                  THEN 0 .. (NgpusPerNode(l) - 1)
                  ELSE {l.gpu}

\* lines 280-286: the rank main_worker ends with (None: os.environ["RANK"] raised)
WorkerRank(l, gpu) ==
    LET r1 == IF Distributed(l) /\ l.rank = -1 THEN l.RANK ELSE l.rank
    IN  IF Distributed(l) /\ l.multiprocessing_distributed
        THEN (IF r1 = None THEN None ELSE r1 * NgpusPerNode(l) + gpu)
        ELSE r1

\* line 287: whether main_worker calls dist.init_process_group
InitsProcessGroup(l) == Distributed(l) \/ NgpusPerNode(l) > 1

\* dist.init_process_group accepts a rank only inside 0 .. world_size - 1
RankValid(l, gpu) == WorkerRank(l, gpu) >= 0 /\ WorkerRank(l, gpu) < WorldSize(l)

\* lines 265-266
is_primary(mpd, rank, ngpus_per_node) ==
    ~mpd \/ (mpd /\ rank % ngpus_per_node = 0)

(***************************************************************************)
(* One worker process: main_worker() and train().                          *)
(***************************************************************************)
\* a file of the checkpoint directory: absent, or the dictionary train() saved
NoFile == [exists |-> FALSE, step |-> 0, state_dict |-> 0, best_acc1 |-> 0,
           optimizer |-> 0, scheduler |-> None, scaler |-> None]

EmptyDir == [rolling |-> NoFile, best |-> NoFile,
             steps |-> [k \in 1 .. (MaxTrain + 1) |-> NoFile]]

\* --resume: no path, a path that names no file, or a file of the directory
NoPath      == [kind |-> "none", n |-> 0]
MissingPath == [kind |-> "missing", n |-> 0]
RollingPath == [kind |-> "rolling", n |-> 0]
BestPath    == [kind |-> "best", n |-> 0]
StepPath(k) == [kind |-> "step", n |-> k]

\* os.path.isfile / torch.load on a --resume path
ReadFile(dir, path) ==
    CASE path.kind = "rolling" -> dir.rolling
      [] path.kind = "best"    -> dir.best
      [] path.kind = "step"    -> dir.steps[path.n]
      [] OTHER                 -> NoFile

ExistingPaths(dir) ==
    {p \in {RollingPath, BestPath} \cup {StepPath(k) : k \in DOMAIN dir.steps} :
        ReadFile(dir, p).exists}

NoHistory == [steps |-> << >>, opt_steps |-> 0, sched_steps |-> 0,
              validations |-> << >>, saves |-> << >>, best_copies |-> << >>,
              loaded |-> NoFile, params0 |-> 0]

\* the launches a single worker is drawn from: a CPU process, a one-accelerator
\* process, and the two workers of a one-node multiprocessing-distributed job
CpuLaunch    == Launch(FALSE, -1, -1, None, None, None, FALSE, 0)
OneGpuLaunch == Launch(FALSE, -1, -1, None, None, None, TRUE, 1)
MpdLaunch    == Launch(TRUE, 1, 0, None, None, None, TRUE, 2)

RunEnvs ==
    {[launch |-> l, gpu |-> g, n |-> n] :
        l \in {CpuLaunch, OneGpuLaunch, MpdLaunch}, g \in {None, 0, 1},
        n \in 1 .. MaxTrain}

\* the command lines of the model (batch size 2; --epochs 1 or 2)
CommandLines ==
    [epochs : {1, 2}, batch_size : {2}, prefetch_factor : {1, 2},
     log_steps : {-2, 0, 2, 5}, log_epoch : {{}, {0, 1, 3}}, start_step : {0, 2},
     evaluate : BOOLEAN, resume : {NoPath, MissingPath},
     schedule_free : BOOLEAN, amp : BOOLEAN]

\* the state of a process that has just entered main_worker
Fresh(c, e) ==
    /\ cli = c
    /\ env = e
    /\ args = [start_step |-> c.start_step, batch_size |-> c.batch_size,
               total_batch_size |-> c.batch_size, amp |-> c.amp,
               rank |-> e.launch.rank, specified_steps |-> {}]
    /\ pc = "main_worker"
    /\ g_best_acc1 = 0
    /\ best_acc1 = 0
    /\ is_best = FALSE
    /\ step = 0
    /\ total_steps = 0
    /\ loader = [len |-> 0, pos |-> 0, buf |-> 0, epoch |-> 0]
    /\ model = [params |-> 0, training |-> TRUE]
    /\ optimizer = [state |-> 0, mode |-> "none"]
    /\ scheduler = None
    /\ scaler = None
    /\ hist = NoHistory

TopoIdle  == job = << >> /\ procs = << >> /\ workers = << >> /\ writes = {}
MeterIdle == meters = << >> /\ mpc = << >> /\ wire = << >> /\ mlog = << >>
StepIdle  == trainer = << >>
ValIdle   == validation = << >>
VitIdle   == vit = << >>

Init ==
    /\ \E c \in CommandLines, e \in RunEnvs :
          /\ e.gpu \in SpawnedGpus(e.launch)
          /\ Fresh(c, e)
    /\ run = "first"
    /\ fs = EmptyDir
    /\ TopoIdle
    /\ MeterIdle
    /\ StepIdle /\ ValIdle /\ VitIdle

(***************************************************************************)
(* main_worker, lines 273-468: process group, device, optimizer, scaler,   *)
(* step counts, loaders, scheduler.                                        *)
(***************************************************************************)
\* lines 309-332: AMP is switched off without CUDA
EffectiveAmp(c, l) == c.amp /\ l.cuda

\* optimizer.train() and optimizer.eval() of the schedule-free optimizer
\* (lines 350, 632, 634)
OptimizerTrain(o) == [o EXCEPT !.mode = "train"]
OptimizerEval(o)  == [o EXCEPT !.mode = "eval"]

\* lines 317-326: the per-process batch size
PerProcessBatch(c, l, gpu) ==
    IF l.cuda /\ InitsProcessGroup(l) /\ gpu # None
    THEN IntDiv(c.batch_size, NgpusPerNode(l))
    ELSE c.batch_size

\* lines 436-437
TotalSteps_Floor(n, epochs, total_batch_size) == (n * epochs) \div total_batch_size

TotalSteps(n, epochs, total_batch_size) == PyRound(n * epochs, total_batch_size)

\* lines 438-439
SpecifiedSteps_NoFinal(n, log_epoch, total_batch_size, total) ==
    {PyRound(n * e, total_batch_size) : e \in log_epoch}

SpecifiedSteps(n, log_epoch, total_batch_size, total) ==
    {PyRound(n * e, total_batch_size) : e \in log_epoch} \cup {total}

\* lines 441-455: len(train_loader), with drop_last=True and, when distributed,
\* a DistributedSampler that gives every rank ceil(n / world_size) samples
TrainLoaderLen(n, l, prefetch_factor, batch_size) ==
    LET share == IF Distributed(l) THEN CeilDiv(n, WorldSize(l)) ELSE n
    IN  share \div (prefetch_factor * batch_size)

Setup ==
    /\ pc = "main_worker"
    /\ LET l  == env.launch
           bs == PerProcessBatch(cli, l, env.gpu)
           ts == TotalSteps(env.n, cli.epochs, cli.batch_size)
       IN  IF \/ (InitsProcessGroup(l) /\ ~RankValid(l, env.gpu))
              \/ cli.prefetch_factor * bs <= 0
           THEN /\ pc' = "failed"
                /\ UNCHANGED <<args, total_steps, loader, optimizer, scheduler, scaler>>
           ELSE /\ pc' = "resume"
                /\ args' = [args EXCEPT
                              !.rank = WorkerRank(l, env.gpu),
                              !.total_batch_size = cli.batch_size,
                              !.batch_size = bs,
                              !.amp = EffectiveAmp(cli, l),
                              !.specified_steps =
                                  SpecifiedSteps(env.n, cli.log_epoch, cli.batch_size, ts)]
                /\ total_steps' = ts
                /\ loader' = [len |-> TrainLoaderLen(env.n, l, cli.prefetch_factor, bs),
                              pos |-> 0, buf |-> 0, epoch |-> 0]
                /\ optimizer' = IF cli.schedule_free
                                THEN OptimizerTrain([state |-> 0, mode |-> "none"])
                                ELSE [state |-> 0, mode |-> "none"]
                /\ scheduler' = IF cli.schedule_free THEN None ELSE 0
                /\ scaler' = IF EffectiveAmp(cli, l) THEN 0 ELSE None
    /\ UNCHANGED <<cli, env, run, g_best_acc1, best_acc1, is_best, step, model, fs, hist>>
    /\ UNCHANGED <<topoVars, meterVars, moreVars>>

(***************************************************************************)
(* main_worker, lines 470-485: optionally resume from a checkpoint.        *)
(***************************************************************************)
\* line 470 false
NoResume ==
    /\ pc = "resume"
    /\ cli.resume = NoPath
    /\ pc' = "dispatch"
    /\ hist' = [hist EXCEPT !.params0 = model.params]
    /\ UNCHANGED <<cli, env, args, run, g_best_acc1, best_acc1, is_best, step,
                   total_steps, loader, model, optimizer, scheduler, scaler, fs>>
    /\ UNCHANGED <<topoVars, meterVars, moreVars>>

\* lines 471-483
LoadCheckpoint ==
    /\ pc = "resume"
    /\ cli.resume # NoPath
    /\ ReadFile(fs, cli.resume).exists
    /\ LET checkpoint == ReadFile(fs, cli.resume)
       IN  IF ~cli.schedule_free /\ checkpoint.scheduler = None
           THEN /\ pc' = "failed"
                /\ UNCHANGED <<args, g_best_acc1, model, optimizer, scheduler, scaler, hist>>
           ELSE /\ pc' = "dispatch"
                /\ args' = [args EXCEPT !.start_step = checkpoint.step]
                /\ g_best_acc1' = checkpoint.best_acc1
                /\ model' = [model EXCEPT !.params = checkpoint.state_dict]
                /\ optimizer' = [optimizer EXCEPT !.state = checkpoint.optimizer]
                /\ scheduler' = IF ~cli.schedule_free THEN checkpoint.scheduler
                                ELSE scheduler
                /\ scaler' = IF checkpoint.scaler # None /\ args.amp
                             THEN checkpoint.scaler ELSE scaler
                /\ hist' = [hist EXCEPT !.loaded = checkpoint,
                                        !.params0 = checkpoint.state_dict]
    /\ UNCHANGED <<cli, env, run, best_acc1, is_best, step, total_steps, loader, fs>>
    /\ UNCHANGED <<topoVars, meterVars, moreVars>>

\* lines 484-485: "=> no checkpoint found"
NoCheckpointFound_Fatal ==
    /\ pc = "resume"
    /\ cli.resume # NoPath
    /\ ~ReadFile(fs, cli.resume).exists
    /\ pc' = "failed"
    /\ UNCHANGED <<cli, env, args, run, g_best_acc1, best_acc1, is_best, step,
                   total_steps, loader, model, optimizer, scheduler, scaler, fs, hist>>
    /\ UNCHANGED <<topoVars, meterVars, moreVars>>

NoCheckpointFound ==
    /\ pc = "resume"
    /\ cli.resume # NoPath
    /\ ~ReadFile(fs, cli.resume).exists
    /\ pc' = "dispatch"
    /\ hist' = [hist EXCEPT !.params0 = model.params]
    /\ UNCHANGED <<cli, env, args, run, g_best_acc1, best_acc1, is_best, step,
                   total_steps, loader, model, optimizer, scheduler, scaler, fs>>
    /\ UNCHANGED <<topoVars, meterVars, moreVars>>

(***************************************************************************)
(* main_worker, lines 512-518: evaluate once, or train.                    *)
(***************************************************************************)
Accuracies == 0 .. MaxAcc

\* what validate() leaves behind: model.eval() (line 701) and one more pass
Validated(at, acc) ==
    /\ model' = [model EXCEPT !.training = FALSE]
    /\ hist' = [hist EXCEPT !.validations =
                   Append(@, [step |-> at, acc |-> acc, mode |-> optimizer'.mode])]

\* lines 512-515
EvaluateOnly_ThenTrain ==
    /\ pc = "dispatch"
    /\ cli.evaluate
    /\ \E acc \in Accuracies :
          /\ optimizer' = optimizer
          /\ Validated(args.start_step, acc)
    /\ pc' = "train"
    /\ UNCHANGED <<cli, env, args, run, g_best_acc1, best_acc1, is_best, step,
                   total_steps, loader, scheduler, scaler, fs>>
    /\ UNCHANGED <<topoVars, meterVars, moreVars>>

EvaluateOnly ==
    /\ pc = "dispatch"
    /\ cli.evaluate
    /\ \E acc \in Accuracies :
          /\ optimizer' = optimizer
          /\ Validated(args.start_step, acc)
    /\ pc' = "done"
    /\ UNCHANGED <<cli, env, args, run, g_best_acc1, best_acc1, is_best, step,
                   total_steps, loader, scheduler, scaler, fs>>
    /\ UNCHANGED <<topoVars, meterVars, moreVars>>

\* line 517
CallTrain ==
    /\ pc = "dispatch"
    /\ ~cli.evaluate
    /\ pc' = "train"
    /\ UNCHANGED <<cli, env, args, run, g_best_acc1, best_acc1, is_best, step,
                   total_steps, loader, model, optimizer, scheduler, scaler, fs, hist>>
    /\ UNCHANGED <<topoVars, meterVars, moreVars>>

(***************************************************************************)
(* train(), lines 530-657.                                                 *)
(***************************************************************************)
\* line 542: the best accuracy train() starts from
InitialBest == 0

\* lines 532-549
TrainInit ==
    /\ pc = "train"
    /\ model' = [model EXCEPT !.training = TRUE]
    /\ best_acc1' = InitialBest
    /\ step' = args.start_step
    /\ pc' = "loop"
    /\ UNCHANGED <<cli, env, args, run, g_best_acc1, is_best, total_steps, loader,
                   optimizer, scheduler, scaler, fs, hist>>
    /\ UNCHANGED <<topoVars, meterVars, moreVars>>

\* line 551: range(start_step + 1, total_steps + 1) still has a step to give.
\* zip asks the range first, so the generator is not touched once it is exhausted
RangeHasNext == step + 1 <= total_steps

\* line 551: the range is exhausted, train() returns
TrainExit ==
    /\ pc = "loop"
    /\ ~RangeHasNext
    /\ pc' = "done"
    /\ UNCHANGED <<cli, env, args, run, g_best_acc1, best_acc1, is_best, step,
                   total_steps, loader, model, optimizer, scheduler, scaler, fs, hist>>
    /\ UNCHANGED <<topoVars, meterVars, moreVars>>

\* lines 521-527, 526: the loader yields its next batch of prefetch_factor
\* physical batches
LoaderBatch ==
    /\ pc = "loop"
    /\ RangeHasNext
    /\ loader.buf = 0
    /\ loader.pos < loader.len
    /\ loader' = [loader EXCEPT !.pos = @ + 1, !.buf = cli.prefetch_factor]
    /\ UNCHANGED <<cli, env, args, run, pc, g_best_acc1, best_acc1, is_best, step,
                   total_steps, model, optimizer, scheduler, scaler, fs, hist>>
    /\ UNCHANGED <<topoVars, meterVars, moreVars>>

\* lines 523-527: the pass over the loader ended; set_epoch and iterate again
LoaderNewEpoch ==
    /\ pc = "loop"
    /\ RangeHasNext
    /\ loader.buf = 0
    /\ loader.pos = loader.len
    /\ loader' = [loader EXCEPT !.pos = 0, !.epoch = (@ + 1) % (MaxEpoch + 1)]
    /\ UNCHANGED <<cli, env, args, run, pc, g_best_acc1, best_acc1, is_best, step,
                   total_steps, model, optimizer, scheduler, scaler, fs, hist>>
    /\ UNCHANGED <<topoVars, meterVars, moreVars>>

\* lines 544-551: the generator hands one physical batch to the next step
NextStep ==
    /\ pc = "loop"
    /\ RangeHasNext
    /\ loader.buf > 0
    /\ loader' = [loader EXCEPT !.buf = @ - 1]
    /\ step' = step + 1
    /\ hist' = [hist EXCEPT !.steps = Append(@, step + 1)]
    /\ pc' = "forward"
    /\ UNCHANGED <<cli, env, args, run, g_best_acc1, best_acc1, is_best,
                   total_steps, model, optimizer, scheduler, scaler, fs>>
    /\ UNCHANGED <<topoVars, meterVars, moreVars>>

\* lines 556-580: forward and backward over the accum_freq sub-chunks
ForwardBackward ==
    /\ pc = "forward"
    /\ pc' = "sgd"
    /\ UNCHANGED <<cli, env, args, run, g_best_acc1, best_acc1, is_best, step,
                   total_steps, loader, model, optimizer, scheduler, scaler, fs, hist>>
    /\ UNCHANGED <<topoVars, meterVars, moreVars>>

\* lines 583-595: unscale, clip, optimizer step, scaler update, zero_grad
SGDStep ==
    /\ pc = "sgd"
    /\ model' = [model EXCEPT !.params = @ + 1]
    /\ optimizer' = [optimizer EXCEPT !.state = @ + 1]
    /\ scaler' = IF args.amp THEN scaler + 1 ELSE scaler
    /\ hist' = [hist EXCEPT !.opt_steps = @ + 1]
    /\ pc' = "evalcheck"
    /\ UNCHANGED <<cli, env, args, run, g_best_acc1, best_acc1, is_best, step,
                   total_steps, loader, scheduler, fs>>
    /\ UNCHANGED <<topoVars, meterVars, moreVars>>

\* line 630
EvalDue(s) == PyMod(s, cli.log_steps) = 0 \/ s \in args.specified_steps

\* line 630: step % args.log_steps raises ZeroDivisionError
EvalCheckRaises ==
    /\ pc = "evalcheck"
    /\ cli.log_steps = 0
    /\ pc' = "failed"
    /\ UNCHANGED <<cli, env, args, run, g_best_acc1, best_acc1, is_best, step,
                   total_steps, loader, model, optimizer, scheduler, scaler, fs, hist>>
    /\ UNCHANGED <<topoVars, meterVars, moreVars>>

\* line 630 false
SkipEval ==
    /\ pc = "evalcheck"
    /\ cli.log_steps # 0
    /\ ~EvalDue(step)
    /\ pc' = "sched"
    /\ UNCHANGED <<cli, env, args, run, g_best_acc1, best_acc1, is_best, step,
                   total_steps, loader, model, optimizer, scheduler, scaler, fs, hist>>
    /\ UNCHANGED <<topoVars, meterVars, moreVars>>

\* line 639
IsBest_NotWorse(acc1, best) == acc1 >= best

IsBest(acc1, best) == acc1 > best

\* line 640
NewBest_Latest(acc1, best) == acc1

NewBest(acc1, best) == Max(acc1, best)

\* lines 631-640: validate, then remember the best acc@1
Evaluate ==
    /\ pc = "evalcheck"
    /\ cli.log_steps # 0
    /\ EvalDue(step)
    /\ \E acc1 \in Accuracies :
          \* optimizer.eval() ... optimizer.train() around validate (lines 631-636)
          LET during == IF cli.schedule_free THEN OptimizerEval(optimizer)
                        ELSE optimizer
          IN  /\ optimizer' = IF cli.schedule_free THEN OptimizerTrain(during)
                              ELSE during
              /\ model' = [model EXCEPT !.training = FALSE]
              /\ hist' = [hist EXCEPT !.validations =
                             Append(@, [step |-> step, acc |-> acc1,
                                        mode |-> during.mode])]
              /\ is_best' = IsBest(acc1, best_acc1)
              /\ best_acc1' = NewBest(acc1, best_acc1)
    /\ pc' = "save"
    /\ UNCHANGED <<cli, env, args, run, g_best_acc1, step,
                   total_steps, loader, scheduler, scaler, fs>>
    /\ UNCHANGED <<topoVars, meterVars, moreVars>>

\* lines 643-652: the dictionary train() saves
CheckpointState_NoScheduler ==
    [exists |-> TRUE, step |-> step, state_dict |-> model.params,
     best_acc1 |-> best_acc1, optimizer |-> optimizer.state,
     scheduler |-> None,
     scaler |-> IF args.amp /\ scaler # None THEN scaler ELSE None]

CheckpointState ==
    [exists |-> TRUE, step |-> step, state_dict |-> model.params,
     best_acc1 |-> best_acc1, optimizer |-> optimizer.state,
     scheduler |-> scheduler,
     scaler |-> IF args.amp /\ scaler # None THEN scaler ELSE None]

\* lines 729-735
save_checkpoint_NoStepCopy(dir, state, best, at) ==
    [dir EXCEPT !.rolling = state,
                !.best = IF best THEN state ELSE @]

save_checkpoint(dir, state, best, at) ==
    [dir EXCEPT !.rolling = state,
                !.best = IF best THEN state ELSE @,
                !.steps[at] = state]

\* lines 642-654 on a primary process
SaveCheckpoint ==
    /\ pc = "save"
    /\ is_primary(env.launch.multiprocessing_distributed, args.rank,
                  NgpusPerNode(env.launch))
    /\ fs' = save_checkpoint(fs, CheckpointState, is_best, step)
    /\ hist' = [hist EXCEPT !.saves = Append(@, CheckpointState),
                            !.best_copies = IF is_best THEN Append(@, step) ELSE @]
    /\ pc' = "sched"
    /\ UNCHANGED <<cli, env, args, run, g_best_acc1, best_acc1, is_best, step,
                   total_steps, loader, model, optimizer, scheduler, scaler>>
    /\ UNCHANGED <<topoVars, meterVars, moreVars>>

\* line 642 false
SkipSave ==
    /\ pc = "save"
    /\ ~is_primary(env.launch.multiprocessing_distributed, args.rank,
                   NgpusPerNode(env.launch))
    /\ pc' = "sched"
    /\ UNCHANGED <<cli, env, args, run, g_best_acc1, best_acc1, is_best, step,
                   total_steps, loader, model, optimizer, scheduler, scaler, fs, hist>>
    /\ UNCHANGED <<topoVars, meterVars, moreVars>>

\* lines 656-657
SchedulerStep ==
    /\ pc = "sched"
    /\ scheduler' = IF scheduler # None THEN scheduler + 1 ELSE scheduler
    /\ hist' = [hist EXCEPT !.sched_steps = IF scheduler # None THEN @ + 1 ELSE @]
    /\ pc' = "loop"
    /\ UNCHANGED <<cli, env, args, run, g_best_acc1, best_acc1, is_best, step,
                   total_steps, loader, model, optimizer, scaler, fs>>
    /\ UNCHANGED <<topoVars, meterVars, moreVars>>

(***************************************************************************)
(* The script is started again on the same checkpoint directory with       *)
(* --resume naming one of the files the first invocation wrote             *)
(* (lines 150-153, 204-205, 470-473).                                      *)
(***************************************************************************)
Restart ==
    /\ pc = "done"
    /\ run = "first"
    /\ \E path \in ExistingPaths(fs), ev \in BOOLEAN :
          cli' = [cli EXCEPT !.resume = path, !.evaluate = ev]
    /\ run' = "resumed"
    /\ args' = [start_step |-> cli.start_step, batch_size |-> cli.batch_size,
                total_batch_size |-> cli.batch_size, amp |-> cli.amp,
                rank |-> env.launch.rank, specified_steps |-> {}]
    /\ pc' = "main_worker"
    /\ g_best_acc1' = 0
    /\ best_acc1' = 0
    /\ is_best' = FALSE
    /\ step' = 0
    /\ total_steps' = 0
    /\ loader' = [len |-> 0, pos |-> 0, buf |-> 0, epoch |-> 0]
    /\ model' = [params |-> 0, training |-> TRUE]
    /\ optimizer' = [state |-> 0, mode |-> "none"]
    /\ scheduler' = None
    /\ scaler' = None
    /\ hist' = NoHistory
    /\ UNCHANGED <<env, fs>>
    /\ UNCHANGED <<topoVars, meterVars, moreVars>>

Next ==
    \/ Setup
    \/ NoResume
    \/ LoadCheckpoint
    \/ NoCheckpointFound
    \/ EvaluateOnly
    \/ CallTrain
    \/ TrainInit
    \/ TrainExit
    \/ LoaderBatch
    \/ LoaderNewEpoch
    \/ NextStep
    \/ ForwardBackward
    \/ SGDStep
    \/ EvalCheckRaises
    \/ SkipEval
    \/ Evaluate
    \/ SaveCheckpoint
    \/ SkipSave
    \/ SchedulerStep
    \/ Restart

Spec == Init /\ [][Next]_vars

\* the interpreter keeps running the process: a step that can be taken is taken
FairSpec == Init /\ [][Next]_vars /\ WF_vars(Next)

(***************************************************************************)
(* Properties of the worker process (Spec, FairSpec).                      *)
(***************************************************************************)
InTrain == pc \in {"loop", "forward", "sgd", "evalcheck", "save", "sched"}

Primary == is_primary(env.launch.multiprocessing_distributed, args.rank,
                      NgpusPerNode(env.launch))

\* the largest accuracy among the first k entries of a validation history, and 0
RECURSIVE MaxAccOf(_, _)
MaxAccOf(vs, k) == IF k = 0 THEN 0 ELSE Max(vs[k].acc, MaxAccOf(vs, k - 1))

\* C1: after resuming from an existing checkpoint the first training step is the
\* saved step + 1, every is_best comparison is made against a best accuracy that
\* is at least the saved one, and every checkpoint written afterwards records a
\* best_acc1 that is at least the saved one.
C1_ResumeRestoresBest ==
    hist.loaded.exists =>
        /\ (Len(hist.steps) > 0 => hist.steps[1] = hist.loaded.step + 1)
        /\ (pc = "evalcheck" => best_acc1 >= hist.loaded.best_acc1)
        /\ \A i \in DOMAIN hist.saves :
              hist.saves[i].best_acc1 >= hist.loaded.best_acc1

\* C2: within one run of train, best_acc1 is the maximum of the accuracies all
\* validate calls of the run returned so far (and 0), and the best_acc1 stored
\* in successive checkpoints never decreases.
C2_BestMonotone ==
    (~cli.evaluate /\ (InTrain \/ pc = "done")) =>
        /\ best_acc1 = MaxAccOf(hist.validations, Len(hist.validations))
        /\ \A i, j \in DOMAIN hist.saves :
              i <= j => hist.saves[i].best_acc1 <= hist.saves[j].best_acc1
        /\ \A i \in DOMAIN hist.saves :
              hist.saves[i].best_acc1 = MaxAccOf(hist.validations, i)

C2_Witness ==
    /\ pc = "sched"
    /\ Len(hist.saves) = 2
    /\ hist.validations[1].acc = 2
    /\ hist.validations[2].acc = 1
    /\ fs.rolling.best_acc1 = 2

\* what C3 promises of a training run that has ended: it validated at step
\* total_steps and, on a primary process, saved the checkpoint of that step
FinalStepDone ==
    /\ hist.steps[Len(hist.steps)] = total_steps
    /\ Len(hist.validations) >= 1
    /\ hist.validations[Len(hist.validations)].step = total_steps
    /\ Primary =>
          /\ Len(hist.saves) >= 1
          /\ hist.saves[Len(hist.saves)].step = total_steps
          /\ fs.steps[total_steps].exists
          /\ fs.steps[total_steps].step = total_steps
          /\ fs.rolling.step = total_steps

C4_TrainTerminates == (pc = "train") ~> (pc \in {"done", "failed"})

\* C4, the part that does not depend on the loader: the steps executed are
\* start_step + 1, start_step + 2, ... in order, one optimizer step each, and
\* none at all when start_step >= total_steps.
C4_StepsInOrder ==
    /\ \A i \in DOMAIN hist.steps : hist.steps[i] = args.start_step + i
    /\ \A i \in DOMAIN hist.steps : hist.steps[i] <= total_steps
    /\ hist.opt_steps = Len(hist.steps) - (IF pc \in {"forward", "sgd"} THEN 1 ELSE 0)
    /\ (pc = "done" /\ ~cli.evaluate /\ args.start_step < total_steps) =>
          Len(hist.steps) = total_steps - args.start_step
    /\ (~cli.evaluate /\ pc \notin {"main_worker", "resume"}
        /\ args.start_step >= total_steps) =>
          /\ hist.steps = << >>
          /\ hist.validations = << >>
          /\ hist.saves = << >>

\* C6: checkpoint.pth.tar holds the most recent save, every step-tagged file
\* of a step saved in this run holds the state saved at that step, every
\* evaluated step of a primary process has its file, and a save changes no
\* step-tagged file but its own.
C6_Files ==
    /\ (Len(hist.saves) >= 1 => fs.rolling = hist.saves[Len(hist.saves)])
    /\ \A i \in DOMAIN hist.saves : fs.steps[hist.saves[i].step] = hist.saves[i]
    /\ (~cli.evaluate /\ Primary) =>
          \A i \in DOMAIN hist.validations :
              (i < Len(hist.validations) \/ pc # "save") =>
                  /\ fs.steps[hist.validations[i].step].exists
                  /\ fs.steps[hist.validations[i].step].step = hist.validations[i].step

C6_OtherStepsKept ==
    \A k \in DOMAIN fs.steps :
        fs'.steps[k] # fs.steps[k] => (pc = "save" /\ k = step)

C6_StepFiles == []C6_Files /\ [][C6_OtherStepsKept]_vars

C6_Witness ==
    /\ Len(hist.saves) = 2
    /\ hist.saves[1].step # hist.saves[2].step
    /\ fs.steps[hist.saves[1].step] = hist.saves[1]
    /\ fs.steps[hist.saves[2].step] = hist.saves[2]
    /\ fs.rolling = hist.saves[2]
    /\ hist.saves[1] # hist.saves[2]

\* C7: an evaluate-only worker runs one validation pass and returns: it takes
\* no optimizer step and no scheduler step, writes no file, and leaves the model
\* parameters as they were after set-up and resume.
C7_State ==
    cli.evaluate =>
        /\ ~InTrain /\ pc # "train"
        /\ hist.opt_steps = 0
        /\ hist.sched_steps = 0
        /\ hist.saves = << >>
        /\ (pc \in {"dispatch", "done"} => model.params = hist.params0)
        /\ (pc = "dispatch" => hist.validations = << >>)
        /\ (pc = "done" => Len(hist.validations) = 1)

C7_NoWrite ==
    (cli.evaluate /\ cli'.evaluate) =>
        /\ fs' = fs
        /\ (pc \in {"dispatch", "done"} =>
               /\ model'.params = model.params
               /\ optimizer'.state = optimizer.state
               /\ scheduler' = scheduler)

C7_EvaluateOnly == []C7_State /\ [][C7_NoWrite]_vars

\* an evaluate-only run resumed from a checkpoint with training steps left
C7_Witness ==
    /\ pc = "done"
    /\ cli.evaluate
    /\ hist.loaded.exists
    /\ args.start_step < total_steps
    /\ Len(hist.validations) = 1
    /\ model.params = hist.loaded.state_dict
    /\ model.params > 0

\* C8: --resume naming no file is not fatal: the start step stays the
\* configured one, the best accuracy stays 0, model, optimizer, scheduler and
\* scaler stay as constructed, and the worker goes on to evaluate or train.
C8_State ==
    (cli.resume # NoPath /\ ~ReadFile(fs, cli.resume).exists /\ run = "first") =>
        /\ (pc = "failed" => cli.log_steps = 0 /\ Len(hist.steps) >= 1)
        /\ args.start_step = cli.start_step
        /\ g_best_acc1 = 0
        /\ ~hist.loaded.exists
        /\ (pc = "dispatch" =>
               /\ model.params = 0
               /\ optimizer.state = 0
               /\ scheduler = (IF cli.schedule_free THEN None ELSE 0)
               /\ scaler = (IF args.amp THEN 0 ELSE None))
        /\ (Len(hist.steps) >= 1 => hist.steps[1] = cli.start_step + 1)

C8_Proceeds ==
    (pc = "resume" /\ cli.resume # NoPath /\ ~ReadFile(fs, cli.resume).exists) =>
        pc' = "dispatch"

C8_MissingResume == []C8_State /\ [][C8_Proceeds]_vars

C8_Witness ==
    /\ cli.resume = MissingPath
    /\ cli.start_step = 2
    /\ pc = "forward"
    /\ step = 3
    /\ model.params = 0

\* C17: in schedule-free mode the optimizer is in training mode at every
\* optimizer step, in evaluation mode during every validation pass (inside train
\* and in the evaluate-only pass), and in training mode again before the next
\* training step.
C17_OptimizerModes ==
    (cli.schedule_free /\ pc \notin {"main_worker", "failed"}) =>
        /\ \A i \in DOMAIN hist.validations : hist.validations[i].mode = "eval"
        /\ (pc \in {"loop", "forward", "sgd"} => optimizer.mode = "train")

\* C19: without --schedule-free, in a run started at step 0 and in a run resumed
\* from a checkpoint such a run wrote, the scheduler has been advanced exactly
\* k - 1 times when the optimizer update of step k is applied, and once per
\* training step of the run.
C19_SchedulerInStep ==
    (~cli.schedule_free /\ cli.start_step = 0) =>
        /\ (pc = "sgd" => scheduler = step - 1)
        /\ (InTrain =>
               hist.sched_steps =
                   Len(hist.steps) - (IF pc = "loop" THEN 0 ELSE 1))

\* the first of the first k evaluations that attains their largest accuracy
RECURSIVE EarliestBest(_, _)
EarliestBest(vs, k) ==
    IF k <= 1 THEN k
    ELSE IF vs[k].acc > MaxAccOf(vs, k - 1) THEN k ELSE EarliestBest(vs, k - 1)

\* C20: on a primary process model_best.pth.tar is written exactly at the
\* evaluations whose accuracy exceeds the best accuracy of the run before them;
\* once written in the run, it is the checkpoint of the earliest evaluated step
\* that attains the largest accuracy so far and its best_acc1 is the current
\* best_acc1.
C20_BestFile ==
    (~cli.evaluate /\ Primary /\ (InTrain \/ pc = "done")) =>
        LET vs == hist.validations
            k  == Len(hist.saves)
            j  == EarliestBest(vs, k)
        IN  /\ k = Len(vs) - (IF pc = "save" THEN 1 ELSE 0)
            /\ \A i \in 1 .. k :
                  (\E c \in DOMAIN hist.best_copies : hist.best_copies[c] = vs[i].step)
                      <=> vs[i].acc > MaxAccOf(vs, i - 1)
            /\ \A c \in DOMAIN hist.best_copies :
                  \E i \in 1 .. k : vs[i].step = hist.best_copies[c]
            /\ hist.best_copies # << >> =>
                  /\ fs.best = hist.saves[j]
                  /\ fs.best.step = vs[j].step
                  /\ vs[j].acc = MaxAccOf(vs, k)
                  /\ \A i \in 1 .. (j - 1) : vs[i].acc < vs[j].acc
                  /\ fs.best.best_acc1 = MaxAccOf(vs, k)
                  /\ (pc # "save" => fs.best.best_acc1 = best_acc1)

\* two evaluations with the same accuracy: the file is written at the first one
\* only and still holds that step after the second save
C20_Witness ==
    /\ pc = "sched"
    /\ Primary
    /\ Len(hist.saves) = 2
    /\ hist.validations[1].acc = 1 /\ hist.validations[2].acc = 1
    /\ hist.best_copies = <<hist.validations[1].step>>
    /\ fs.best = hist.saves[1]
    /\ fs.rolling = hist.saves[2]
    /\ fs.best.best_acc1 = best_acc1

\* what C22 promises of one checkpoint file: scheduler state exactly when the
\* run is not schedule-free, scaler state exactly when AMP is in effect
FieldsMatchConfig(f) ==
    f.exists =>
        /\ (f.scheduler # None <=> ~cli.schedule_free)
        /\ (f.scaler # None <=> EffectiveAmp(cli, env.launch))

\* C22: every checkpoint the training loop writes holds step, model state,
\* best_acc1 and optimizer state, scheduler state iff the run is not
\* schedule-free and scaler state iff AMP is in effect; so a run resumed from it
\* under the same configuration loads it and goes on.
C22_CheckpointFields ==
    /\ \A i \in DOMAIN hist.saves :
          /\ FieldsMatchConfig(hist.saves[i])
          /\ \E k \in DOMAIN hist.steps : hist.steps[k] = hist.saves[i].step
          /\ hist.saves[i].best_acc1 = MaxAccOf(hist.validations, i)
    /\ (pc # "none") =>
          /\ FieldsMatchConfig(fs.rolling)
          /\ FieldsMatchConfig(fs.best)
          /\ \A k \in DOMAIN fs.steps : FieldsMatchConfig(fs.steps[k])
    /\ (run = "resumed" /\ pc \notin {"main_worker", "resume"}) =>
          /\ pc # "failed"
          /\ hist.loaded.exists
          /\ args.start_step = hist.loaded.step
          /\ (~cli.schedule_free => hist.loaded.scheduler # None)

\* a run with a scheduler and AMP on an accelerator, resumed from its own
\* checkpoint
C22_Witness ==
    /\ run = "resumed"
    /\ pc = "dispatch"
    /\ ~cli.schedule_free
    /\ cli.amp /\ env.launch.cuda
    /\ hist.loaded.exists
    /\ hist.loaded.scheduler # None
    /\ hist.loaded.scaler # None
    /\ scheduler = hist.loaded.scheduler
    /\ scaler = hist.loaded.scaler

\* C23: the model is in training mode during the forward and backward pass of
\* every training step.
C23_TrainingMode == pc = "forward" => model.training

\* t is num / den rounded to the nearest integer, the even one of the two when
\* num / den lies halfway between them
RoundsTo(num, den, t) ==
    LET d == IF den * t >= num THEN den * t - num ELSE num - den * t
    IN  /\ 2 * d <= den
        /\ (2 * d = den => t % 2 = 0)

\* C11: total_steps is n * E / B rounded to the nearest integer (8 for n = 1000,
\* E = 2, B = 256), and the forced-evaluation steps are total_steps and, for
\* every requested log epoch e, n * e / B rounded by the same rule, halfway
\* cases included.
C11_StepCounts ==
    /\ TotalSteps(1000, 2, 256) = 8
    /\ (pc \notin {"main_worker", "failed"}) =>
          /\ args.total_batch_size = cli.batch_size
          /\ RoundsTo(env.n * cli.epochs, args.total_batch_size, total_steps)
          /\ \A e \in cli.log_epoch :
                \E s \in args.specified_steps :
                    RoundsTo(env.n * e, args.total_batch_size, s)
          /\ \A s \in args.specified_steps :
                \/ s = total_steps
                \/ \E e \in cli.log_epoch :
                      RoundsTo(env.n * e, args.total_batch_size, s)

\* n = 3, B = 2: one epoch is 1.5 steps and three epochs are 4.5 steps, both
\* halfway; they round to 2 and to 4
C11_Witness ==
    /\ pc = "resume"
    /\ env.n = 3 /\ cli.batch_size = 2 /\ cli.epochs = 1
    /\ cli.log_epoch = {0, 1, 3}
    /\ total_steps = 2
    /\ args.specified_steps = {0, 2, 4}

(***************************************************************************)
(* The processes of one job (SpecTopo): every invocation of main() starts  *)
(* its workers, each worker resolves its rank, joins the process group,    *)
(* trains to an evaluation step and, if is_primary, writes the checkpoint  *)
(* files of the run's checkpoint directory (one --name, one file system).  *)
(***************************************************************************)
\* one process, no distributed option given
SingleJobs ==
    {<<Launch(FALSE, -1, -1, None, None, None, FALSE, 0)>>}
    \cup {<<Launch(FALSE, -1, -1, None, None, None, TRUE, g)>> : g \in 1 .. MaxGpus}

\* one externally launched process per rank: WORLD_SIZE and RANK in the
\* environment, no --multiprocessing-distributed
ExternalJobs ==
    {[i \in 1 .. w |-> Launch(FALSE, -1, -1, None, w, i - 1, TRUE, g)] :
        w \in 2 .. MaxNodes, g \in 1 .. MaxGpus}

\* --multiprocessing-distributed, one invocation per node with --world-size
\* the number of nodes and --rank the node's index
MultiprocessingJobs ==
    {[i \in 1 .. nodes |-> Launch(TRUE, nodes, i - 1, None, None, None, TRUE, g)] :
        nodes \in 1 .. MaxNodes, g \in 1 .. MaxGpus}

Jobs == SingleJobs \cup ExternalJobs \cup MultiprocessingJobs

\* every launch of a job is given the same --batch-size
WithBatchSize(j, b) == [i \in DOMAIN j |-> j[i] @@ [batch_size |-> b]]

RunIdle ==
    /\ cli = << >> /\ env = << >> /\ args = << >> /\ run = "none" /\ pc = "none"
    /\ g_best_acc1 = 0 /\ best_acc1 = 0 /\ is_best = FALSE /\ step = 0
    /\ total_steps = 0 /\ loader = << >> /\ model = << >> /\ optimizer = << >>
    /\ scheduler = None /\ scaler = None /\ fs = << >> /\ hist = << >>

InitTopo ==
    /\ job \in {WithBatchSize(j, b) : j \in Jobs, b \in 1 .. MaxBatchSize}
    /\ procs = [i \in DOMAIN job |-> "start"]
    /\ workers = {}
    /\ writes = {}
    /\ RunIdle
    /\ MeterIdle
    /\ StepIdle /\ ValIdle /\ VitIdle

\* lines 253-262: mp.spawn(main_worker, nprocs=ngpus_per_node), or main_worker(args.gpu)
Main(i) ==
    /\ procs[i] = "start"
    /\ procs' = [procs EXCEPT ![i] = "spawned"]
    /\ workers' = workers \cup
          {[proc |-> i, gpu |-> g, pc |-> "main_worker", rank |-> job[i].rank,
            world_size |-> WorldSize(job[i]), batch_size |-> job[i].batch_size,
            total_batch_size |-> None] :
              g \in SpawnedGpus(job[i])}
    /\ UNCHANGED <<job, writes>>
    /\ UNCHANGED <<runVars, meterVars, moreVars>>

Moved(w, to) == (workers \ {w}) \cup {[w EXCEPT !.pc = to]}

\* lines 307-327: total_batch_size and the per-process batch size
BatchResolved(w) ==
    [w EXCEPT !.total_batch_size = w.batch_size,
              !.batch_size = PerProcessBatch(job[w.proc], job[w.proc], w.gpu)]

\* lines 280-290: resolve the rank and call dist.init_process_group; without a
\* process group the worker goes straight on to lines 307-327
WorkerInit(w) ==
    /\ w.pc = "main_worker"
    /\ LET l == job[w.proc]
           r == WorkerRank(l, w.gpu)
       IN  workers' = (workers \ {w}) \cup
              {IF ~InitsProcessGroup(l)
               THEN [BatchResolved(w) EXCEPT !.rank = r, !.pc = "train"]
               ELSE [w EXCEPT !.rank = r,
                              !.pc = IF RankValid(l, w.gpu) THEN "rendezvous"
                                     ELSE "failed"]}
    /\ UNCHANGED <<job, procs, writes>>
    /\ UNCHANGED <<runVars, meterVars, moreVars>>

\* dist.init_process_group returns once world_size ranks have joined
GroupFormed(w) ==
    /\ w.pc = "rendezvous"
    /\ \A r \in 0 .. (w.world_size - 1) :
          \E v \in workers : v.rank = r /\ v.pc \in {"rendezvous", "train", "save", "done"}
    /\ workers' = (workers \ {w}) \cup {[BatchResolved(w) EXCEPT !.pc = "train"]}
    /\ UNCHANGED <<job, procs, writes>>
    /\ UNCHANGED <<runVars, meterVars, moreVars>>

\* lines 551-640: the worker reaches an evaluation step and validates
WorkerEvaluate(w) ==
    /\ w.pc = "train"
    /\ workers' = Moved(w, "save")
    /\ UNCHANGED <<job, procs, writes>>
    /\ UNCHANGED <<runVars, meterVars, moreVars>>

\* lines 642-654: only a primary process writes the checkpoint files
WorkerSave(w) ==
    /\ w.pc = "save"
    /\ writes' = IF is_primary(job[w.proc].multiprocessing_distributed, w.rank,
                               NgpusPerNode(job[w.proc]))
                 THEN writes \cup {[proc |-> w.proc, gpu |-> w.gpu, rank |-> w.rank]}
                 ELSE writes
    /\ workers' = Moved(w, "done")
    /\ UNCHANGED <<job, procs>>
    /\ UNCHANGED <<runVars, meterVars, moreVars>>

NextTopo ==
    \/ \E i \in DOMAIN job : Main(i)
    \/ \E w \in workers : WorkerInit(w)
    \/ \E w \in workers : GroupFormed(w)
    \/ \E w \in workers : WorkerEvaluate(w)
    \/ \E w \in workers : WorkerSave(w)

SpecTopo == InitTopo /\ [][NextTopo]_vars

\* C5: in every topology at most one process of the run writes checkpoint
\* files.
C5_SingleWriter == \A a, b \in writes : a = b

\* the sum of the per-process batch sizes of a set of workers
RECURSIVE BatchSum(_)
BatchSum(ws) ==
    IF ws = {} THEN 0
    ELSE LET w == CHOOSE x \in ws : TRUE IN w.batch_size + BatchSum(ws \ {w})

\* a job on one machine with several accelerators: one multiprocessing launch,
\* or externally launched processes that all see the machine's accelerators
SingleMachineMultiGpu ==
    /\ \A i \in DOMAIN job : NgpusPerNode(job[i]) > 1
    /\ (\E i \in DOMAIN job : job[i].multiprocessing_distributed) => Len(job) = 1

\* C14: on one machine with several accelerators every worker that got past
\* set-up uses batch_size // ngpus_per_node, the per-process batch sizes of the
\* machine sum to at most the configured batch size, and total_batch_size is the
\* configured batch size.
C14_PerProcessBatch ==
    SingleMachineMultiGpu =>
        LET started == {w \in workers : w.pc \in {"train", "save", "done"}}
        IN  /\ \A w \in started :
                  /\ w.batch_size =
                        job[w.proc].batch_size \div NgpusPerNode(job[w.proc])
                  /\ w.total_batch_size = job[w.proc].batch_size
            /\ BatchSum(started) <= job[1].batch_size

\* C24: every worker that calls dist.init_process_group passes a rank in
\* 0 .. world_size - 1, and once all workers of the job have made the call
\* their ranks are pairwise distinct and cover 0 .. world_size - 1.
C24_ValidRanks ==
    LET called == {w \in workers :
                      w.pc # "main_worker" /\ InitsProcessGroup(job[w.proc])}
    IN  /\ \A w \in called : 0 <= w.rank /\ w.rank < w.world_size
        /\ ((\A i \in DOMAIN job : procs[i] = "spawned") /\ called = workers) =>
              /\ \A v, w \in workers : v # w => v.rank # w.rank
              /\ \A w \in workers :
                    \A r \in 0 .. (w.world_size - 1) : \E v \in workers : v.rank = r

(***************************************************************************)
(* AverageMeter (lines 743-768) on the two ranks of a process group        *)
(* (SpecMeter).  Values and weights are integers; avg is the exact         *)
(* quotient, kept as a reduced fraction.                                   *)
(***************************************************************************)
Ranks == {0, 1}

RECURSIVE Gcd(_, _)
Gcd(a, b) == IF b = 0 THEN a ELSE Gcd(b, a % b)

\* a / b for a >= 0, b > 0
Ratio(a, b) == LET g == Gcd(a, b) IN [num |-> a \div g, den |-> b \div g]

\* the integer 0 that reset() stores
Zero == [num |-> 0, den |-> 1]

\* integers up to 2^24 are float32 values; beyond, float32 keeps 24 significant bits
F32Exact == 2^24

RECURSIVE F32Spacing(_, _)
F32Spacing(x, s) == IF x < F32Exact * s THEN s ELSE F32Spacing(x, 2 * s)

\* torch.tensor([...], dtype=torch.float32) and float32 addition, on an integer
\* x >= 0: round to nearest representable value, ties to the even significand
F32(x) ==
    LET s == F32Spacing(x, 1)
        q == x \div s
        r == x % s
    IN  IF 2 * r < s THEN q * s
        ELSE IF 2 * r > s THEN (q + 1) * s
        ELSE IF q % 2 = 0 THEN q * s ELSE (q + 1) * s

\* the weights update() is called with: a sample count, up to one past which
\* float32 stops being exact
Weights == {1, F32Exact}

\* lines 752-756
reset_meter == [val |-> 0, avg |-> Zero, sum |-> 0, count |-> 0]

\* lines 758-762
update_Unweighted(m, val, n) ==
    [val |-> val, sum |-> m.sum + val, count |-> m.count + n,
     avg |-> Ratio(m.sum + val, m.count + n)]

update(m, val, n) ==
    [val |-> val, sum |-> m.sum + val * n, count |-> m.count + n,
     avg |-> Ratio(m.sum + val * n, m.count + n)]

\* line 765: the tensor a rank contributes
Contribution(m) == <<F32(m.sum), F32(m.count)>>

\* line 766: the element-wise float32 sum over the two ranks
Reduced(w) == <<F32(w[0][1] + w[1][1]), F32(w[0][2] + w[1][2])>>

\* lines 767-768: unpack and recompute avg; val is not assigned
all_reduce_SumOnly(m, total) ==
    [m EXCEPT !.sum = total[1],
              !.avg = IF m.count = 0 THEN @ ELSE Ratio(total[1], m.count)]

all_reduce(m, total) ==
    [m EXCEPT !.sum = total[1], !.count = total[2],
              !.avg = IF total[2] = 0 THEN @ ELSE Ratio(total[1], total[2])]

NoTensor == << >>

InitMeter ==
    /\ meters = [p \in Ranks |-> reset_meter]
    /\ mpc = [p \in Ranks |-> "local"]
    /\ wire = [p \in Ranks |-> NoTensor]
    /\ mlog = [p \in Ranks |-> << >>]
    /\ RunIdle
    /\ TopoIdle
    /\ StepIdle /\ ValIdle /\ VitIdle

MeterReset(p) ==
    /\ mpc[p] = "local"
    /\ mlog[p] # << >>
    /\ meters' = [meters EXCEPT ![p] = reset_meter]
    /\ mlog' = [mlog EXCEPT ![p] = << >>]
    /\ UNCHANGED <<mpc, wire>>
    /\ UNCHANGED <<runVars, topoVars, moreVars>>

MeterUpdate(p) ==
    /\ mpc[p] = "local"
    /\ Len(mlog[p]) < MaxUpdates
    /\ \E val \in 0 .. MaxVal, n \in Weights :
          /\ meters' = [meters EXCEPT ![p] = update(@, val, n)]
          /\ mlog' = [mlog EXCEPT ![p] = Append(@, <<val, n>>)]
    /\ UNCHANGED <<mpc, wire>>
    /\ UNCHANGED <<runVars, topoVars, moreVars>>

\* lines 765-766: the rank enters the collective with its tensor
AllReduceEnter(p) ==
    /\ mpc[p] = "local"
    /\ wire' = [wire EXCEPT ![p] = Contribution(meters[p])]
    /\ mpc' = [mpc EXCEPT ![p] = "waiting"]
    /\ UNCHANGED <<meters, mlog>>
    /\ UNCHANGED <<runVars, topoVars, moreVars>>

\* lines 766-768: every rank has entered; the call returns the total.
\* self.sum / self.count raises ZeroDivisionError when the total count is 0
AllReduceReturn(p) ==
    /\ mpc[p] = "waiting"
    /\ \A q \in Ranks : wire[q] # NoTensor
    /\ meters' = [meters EXCEPT ![p] = all_reduce(@, Reduced(wire))]
    /\ mpc' = [mpc EXCEPT ![p] = IF Reduced(wire)[2] = 0 THEN "failed" ELSE "reduced"]
    /\ UNCHANGED <<wire, mlog>>
    /\ UNCHANGED <<runVars, topoVars, moreVars>>

NextMeter ==
    \/ \E p \in Ranks : MeterReset(p)
    \/ \E p \in Ranks : MeterUpdate(p)
    \/ \E p \in Ranks : AllReduceEnter(p)
    \/ \E p \in Ranks : AllReduceReturn(p)

SpecMeter == InitMeter /\ [][NextMeter]_vars

\* the sums of value * weight and of weight over the first k updates of a log
RECURSIVE LogSum(_, _)
LogSum(log, k) == IF k = 0 THEN 0 ELSE log[k][1] * log[k][2] + LogSum(log, k - 1)

RECURSIVE LogCount(_, _)
LogCount(log, k) == IF k = 0 THEN 0 ELSE log[k][2] + LogCount(log, k - 1)

\* C9: after any sequence of reset and update calls, sum is the sum of
\* value * weight over the updates since the last reset, count the sum of the
\* weights, avg their quotient and val the last value; right after reset all
\* four are 0.
C9_MeterArithmetic ==
    \A p \in Ranks :
        mpc[p] = "local" =>
            LET log == mlog[p]
                k   == Len(log)
                m   == meters[p]
            IN  /\ m.sum = LogSum(log, k)
                /\ m.count = LogCount(log, k)
                /\ (k > 0 => /\ m.avg = Ratio(LogSum(log, k), LogCount(log, k))
                             /\ m.count % m.avg.den = 0
                             /\ m.avg.num * (m.count \div m.avg.den) = m.sum
                             /\ m.val = log[k][1])
                /\ (k = 0 => m = [val |-> 0, avg |-> Zero, sum |-> 0, count |-> 0])

\* two updates with different weights since a reset
C9_Witness ==
    \E p \in Ranks :
        /\ mpc[p] = "local"
        /\ mlog[p] = <<<<1, F32Exact>>, <<0, 1>>>>
        /\ meters[p].sum = F32Exact
        /\ meters[p].count = F32Exact + 1
        /\ meters[p].val = 0

\* the pooled data of the group: every rank's updates since its reset
PooledSum   == LogSum(mlog[0], Len(mlog[0])) + LogSum(mlog[1], Len(mlog[1]))
PooledCount == LogCount(mlog[0], Len(mlog[0])) + LogCount(mlog[1], Len(mlog[1]))
LastVal(p)  == IF mlog[p] = << >> THEN 0 ELSE mlog[p][Len(mlog[p])][1]

\* C10 as stated: after all_reduce every rank holds the sum, the count and the
\* average of the pooled data, and its val is unchanged.
C10_ExactPooled ==
    \A p \in Ranks :
        mpc[p] = "reduced" =>
            /\ meters[p].sum = PooledSum
            /\ meters[p].count = PooledCount
            /\ meters[p].avg = Ratio(PooledSum, PooledCount)
            /\ meters[p].val = LastVal(p)

\* C10 as amended: the totals are those of the float32 tensors, identical on all
\* ranks, and they are the pooled totals whenever these are at most 2^24; val
\* is unchanged.
C10_PooledInFloat32 ==
    \A p \in Ranks :
        mpc[p] = "reduced" =>
            /\ meters[p].sum =
                  F32(F32(LogSum(mlog[0], Len(mlog[0]))) + F32(LogSum(mlog[1], Len(mlog[1]))))
            /\ meters[p].count =
                  F32(F32(LogCount(mlog[0], Len(mlog[0]))) + F32(LogCount(mlog[1], Len(mlog[1]))))
            /\ meters[p].count > 0
            /\ meters[p].avg = Ratio(meters[p].sum, meters[p].count)
            /\ meters[p].val = LastVal(p)
            /\ \A q \in Ranks :
                  mpc[q] = "reduced" =>
                      /\ meters[q].sum = meters[p].sum
                      /\ meters[q].count = meters[p].count
                      /\ meters[q].avg = meters[p].avg
            /\ (PooledSum <= F32Exact /\ PooledCount <= F32Exact) =>
                  /\ meters[p].sum = PooledSum
                  /\ meters[p].count = PooledCount
                  /\ meters[p].avg = Ratio(PooledSum, PooledCount)

\* both ranks reduced, from different local data and different last values
C10_Witness ==
    /\ mpc[0] = "reduced" /\ mpc[1] = "reduced"
    /\ mlog[0] = <<<<1, 1>>>>
    /\ mlog[1] = <<<<1, 1>>, <<0, 1>>>>
    /\ meters[0].sum = 2 /\ meters[0].count = 3
    /\ meters[1].avg = [num |-> 2, den |-> 3]
    /\ meters[0].val = 1 /\ meters[1].val = 0

(***************************************************************************)
(* One training step in detail (SpecStep): lines 551-595.  The model has   *)
(* one scalar parameter; sample i of the batch contributes the gradient    *)
(* batch[i] to the loss of a chunk that contains it.  Gradients are exact  *)
(* rationals and finite, so GradScaler.step always steps the optimizer.    *)
(***************************************************************************)
Abs(x) == IF x < 0 THEN 0 - x ELSE x

\* the rational n / d (d > 0) in lowest terms
QNorm(n, d) == LET g == Gcd(Abs(n), d) IN [num |-> n \div g, den |-> d \div g]

QAdd(a, b) == QNorm(a.num * b.den + b.num * a.den, a.den * b.den)
QMulInt(a, k) == QNorm(a.num * k, a.den)
QDivInt(a, k) == QNorm(a.num, a.den * k)

\* p.grad is None
QUnset == [num |-> 0, den |-> 0]

RECURSIVE SumSeq(_)
SumSeq(q) == IF q = << >> THEN 0 ELSE Head(q) + SumSeq(Tail(q))

\* consecutive pieces of at most size elements
RECURSIVE SplitEvery(_, _)
SplitEvery(t, size) ==
    IF Len(t) <= size THEN <<t>>
    ELSE <<SubSeq(t, 1, size)>> \o SplitEvery(SubSeq(t, size + 1, Len(t)), size)

\* torch.Tensor.chunk(n) on a non-empty tensor: pieces of ceil(len / n) elements
TorchChunk(t, n) == SplitEvery(t, CeilDiv(Len(t), n))

\* lines 196-201
chunk(n, t) == IF n = 1 THEN <<t>> ELSE TorchChunk(t, n)

\* simple_vit.py lines 274-276: nll_loss averages over the samples it is given,
\* so the gradient of the loss of a chunk is the mean of its samples' gradients
MeanLossGrad(ch) == QNorm(SumSeq(ch), Len(ch))

\* lines 563-569 (AMP) and 578: the gradient that backward() adds for a chunk
BackwardGrad_Unweighted(ch, amp, accum_freq, scale) ==
    IF amp THEN QMulInt(MeanLossGrad(ch), scale) ELSE MeanLossGrad(ch)

BackwardGrad(ch, amp, accum_freq, scale) ==
    IF amp THEN QMulInt(QDivInt(MeanLossGrad(ch), accum_freq), scale)
    ELSE QDivInt(MeanLossGrad(ch), accum_freq)

\* backward() accumulates into p.grad
backward(grad, g) == IF grad = QUnset THEN g ELSE QAdd(grad, g)

\* line 131: --grad-clip-norm, default 1.0
ClipNorm == 1

\* lines 586, 592: scale the gradient down to norm max_norm if it is larger
clip_grad_norm_(g, max_norm) ==
    IF Abs(g.num) > max_norm * g.den
    THEN [num |-> IF g.num < 0 THEN 0 - max_norm ELSE max_norm, den |-> 1]
    ELSE g

\* line 595: optimizer.zero_grad() sets the gradients to None
zero_grad_Keep(g) == g

zero_grad(g) == QUnset

\* line 359: GradScaler() starts with scale 2^16
InitScale == 2^16

\* --accum-freq values, and the per-sample gradients a batch is drawn from
AccumFreqs == {1, 2, 3}
GradValues == {-1, 2}
Batches == UNION {[1 .. k -> GradValues] : k \in 1 .. MaxBatchLen}

InitStep ==
    /\ trainer \in [amp : BOOLEAN, accum_freq : AccumFreqs, pc : {"loop"},
                    step : {0}, batch : {<< >>}, chunks : {<< >>},
                    grad : {QUnset}, scale : {InitScale}, calls : {<< >>},
                    opt_steps : {0}, scaler_updates : {0}]
    /\ RunIdle /\ TopoIdle /\ MeterIdle /\ ValIdle /\ VitIdle

\* line 551: the next physical batch; line 556: its sub-chunks
StepBegin ==
    /\ trainer.pc = "loop"
    /\ trainer.step < MaxSteps
    /\ \E b \in Batches :
          trainer' = [trainer EXCEPT !.step = @ + 1, !.batch = b,
                                     !.chunks = chunk(trainer.accum_freq, b),
                                     !.calls = << >>, !.pc = "chunks"]
    /\ UNCHANGED <<runVars, topoVars, meterVars, validation, vit>>

\* lines 556-578: forward and backward of one sub-chunk
SubChunk ==
    /\ trainer.pc = "chunks"
    /\ trainer' = [trainer EXCEPT
          !.grad = backward(@, BackwardGrad(Head(trainer.chunks), trainer.amp,
                                            trainer.accum_freq, trainer.scale)),
          !.chunks = Tail(@),
          !.calls = Append(@, "backward"),
          !.pc = IF Tail(trainer.chunks) # << >> THEN "chunks"
                 ELSE IF trainer.amp THEN "unscale" ELSE "clip"]
    /\ UNCHANGED <<runVars, topoVars, meterVars, validation, vit>>

\* line 585
Unscale ==
    /\ trainer.pc = "unscale"
    /\ trainer' = [trainer EXCEPT !.grad = QDivInt(@, trainer.scale),
                                  !.calls = Append(@, "unscale_"),
                                  !.pc = "clip"]
    /\ UNCHANGED <<runVars, topoVars, meterVars, validation, vit>>

\* lines 586 and 592
Clip ==
    /\ trainer.pc = "clip"
    /\ trainer' = [trainer EXCEPT !.grad = clip_grad_norm_(@, ClipNorm),
                                  !.calls = Append(@, "clip_grad_norm_"),
                                  !.pc = "step"]
    /\ UNCHANGED <<runVars, topoVars, meterVars, validation, vit>>

\* lines 589 and 593
OptimizerStep ==
    /\ trainer.pc = "step"
    /\ trainer' = [trainer EXCEPT !.opt_steps = @ + 1,
                                  !.calls = Append(@, "step"),
                                  !.pc = IF trainer.amp THEN "update" ELSE "zero"]
    /\ UNCHANGED <<runVars, topoVars, meterVars, validation, vit>>

\* line 590
ScalerUpdate ==
    /\ trainer.pc = "update"
    /\ trainer' = [trainer EXCEPT !.scaler_updates = @ + 1,
                                  !.calls = Append(@, "scaler.update"),
                                  !.pc = "zero"]
    /\ UNCHANGED <<runVars, topoVars, meterVars, validation, vit>>

\* line 595
ZeroGrad ==
    /\ trainer.pc = "zero"
    /\ trainer' = [trainer EXCEPT !.grad = zero_grad(@),
                                  !.calls = Append(@, "zero_grad"),
                                  !.pc = "loop"]
    /\ UNCHANGED <<runVars, topoVars, meterVars, validation, vit>>

NextStepDetail ==
    \/ StepBegin
    \/ SubChunk
    \/ Unscale
    \/ Clip
    \/ OptimizerStep
    \/ ScalerUpdate
    \/ ZeroGrad

SpecStep == InitStep /\ [][NextStepDetail]_vars

\* C12: when the batch size is a multiple of accum_freq, the gradient
\* accumulated over the sub-chunks is the gradient of the mean loss over all
\* samples of the batch, which is what accum_freq = 1 accumulates: times the
\* loss scale before unscale_ under AMP, and exactly that before clipping and
\* the optimizer step in both branches.
C12_SameGradient ==
    (trainer.batch # << >> /\ Len(trainer.batch) % trainer.accum_freq = 0) =>
        LET whole == QNorm(SumSeq(trainer.batch), Len(trainer.batch))
        IN  /\ (trainer.pc = "unscale" => trainer.grad = QMulInt(whole, trainer.scale))
            /\ (trainer.pc = "clip" => trainer.grad = whole)
            /\ (trainer.pc = "step" => trainer.grad = clip_grad_norm_(whole, ClipNorm))

\* four samples in two half-batches under AMP, unscaled and about to be clipped
C12_Witness ==
    /\ trainer.pc = "clip"
    /\ trainer.amp
    /\ trainer.accum_freq = 2
    /\ trainer.batch = <<-1, 2, 2, 2>>
    /\ trainer.calls = <<"backward", "backward", "unscale_">>
    /\ trainer.grad = [num |-> 5, den |-> 4]

\* the calls of one training step, in order
RECURSIVE Repeat(_, _)
Repeat(x, k) == IF k = 0 THEN << >> ELSE <<x>> \o Repeat(x, k - 1)

StepCalls(amp, subchunks) ==
    Repeat("backward", subchunks)
    \o (IF amp THEN <<"unscale_">> ELSE << >>)
    \o <<"clip_grad_norm_", "step">>
    \o (IF amp THEN <<"scaler.update">> ELSE << >>)
    \o <<"zero_grad">>

PoolTypes == {"gap", "tok"}

\* line 198: [CLS] is one more register
EffectiveRegister(register, pool_type) ==
    register + (IF pool_type = "tok" THEN 1 ELSE 0)

\* lines 209-210
SeqLength(image_size, patch_size) ==
    (image_size \div patch_size) * (image_size \div patch_size)

\* lines 253-272: one token per patch_size x patch_size patch of an h x w image
PatchTokens(h, w, patch_size) ==
    [i \in 1 .. ((h \div patch_size) * (w \div patch_size)) |->
        [kind |-> "patch", idx |-> i]]

\* lines 283-285: the registers are put in front of the patch tokens
WithRegisters(x, register) ==
    IF register # 0
    THEN [j \in 1 .. register |-> [kind |-> "reg", idx |-> j]] \o x
    ELSE x

\* lines 287-291: the tokens that make up the pooled representation
Pooled_AllTokens(x, pool_type, register) ==
    IF pool_type = "tok" THEN <<x[1]>> ELSE x

Pooled(x, pool_type, register) ==
    IF pool_type = "tok" THEN <<x[1]>> ELSE SubSeq(x, register + 1, Len(x))

InitVit ==
    /\ vit \in [image_size : 1 .. MaxImage, patch_size : 1 .. MaxImage,
                register_arg : 0 .. MaxRegister, pool_type : PoolTypes,
                pc : {"new"}, register : {None}, seq_length : {None},
                patches : {<< >>}, encoder_in : {<< >>}, encoder_out : {<< >>},
                pooled : {<< >>}]
    /\ RunIdle /\ TopoIdle /\ MeterIdle /\ StepIdle /\ ValIdle

\* lines 187-229: __init__
VitConstruct ==
    /\ vit.pc = "new"
    /\ vit' = IF vit.image_size % vit.patch_size # 0
              THEN [vit EXCEPT !.pc = "failed"]
              ELSE [vit EXCEPT
                      !.register = EffectiveRegister(vit.register_arg, vit.pool_type),
                      !.seq_length = SeqLength(vit.image_size, vit.patch_size),
                      !.pc = "constructed"]
    /\ UNCHANGED <<runVars, topoVars, meterVars, trainer, validation>>

\* lines 280-282: _process_input and the position embedding
VitProcessInput ==
    /\ vit.pc = "constructed"
    /\ vit' = [vit EXCEPT
                 !.patches = PatchTokens(vit.image_size, vit.image_size, vit.patch_size),
                 !.pc = "patched"]
    /\ UNCHANGED <<runVars, topoVars, meterVars, trainer, validation>>

\* lines 283-285
VitPrependRegisters ==
    /\ vit.pc = "patched"
    /\ vit' = [vit EXCEPT !.encoder_in = WithRegisters(vit.patches, vit.register),
                          !.pc = "registered"]
    /\ UNCHANGED <<runVars, topoVars, meterVars, trainer, validation>>

\* line 286: the encoder keeps the sequence, token for token
VitEncode ==
    /\ vit.pc = "registered"
    /\ vit' = [vit EXCEPT !.encoder_out = vit.encoder_in, !.pc = "encoded"]
    /\ UNCHANGED <<runVars, topoVars, meterVars, trainer, validation>>

\* lines 287-292
VitPool ==
    /\ vit.pc = "encoded"
    /\ vit' = [vit EXCEPT
                 !.pooled = Pooled(vit.encoder_out, vit.pool_type, vit.register),
                 !.pc = "pooled"]
    /\ UNCHANGED <<runVars, topoVars, meterVars, trainer, validation>>

NextVit ==
    \/ VitConstruct
    \/ VitProcessInput
    \/ VitPrependRegisters
    \/ VitEncode
    \/ VitPool

SpecVit == InitVit /\ [][NextVit]_vars

\* C13: for image_size divisible by patch_size, the effective register count is
\* r + 1 for "tok" and r for "gap"; the patch stage yields (image_size /
\* patch_size)^2 tokens; the encoder receives that many plus the effective
\* register count; and "gap" averages exactly the patch tokens, each once and
\* no register token.
C13_TokenCounts ==
    LET side == vit.image_size \div vit.patch_size
        past(positions) == vit.pc \in positions
    IN  /\ (vit.image_size % vit.patch_size = 0 => vit.pc # "failed")
        /\ past({"constructed", "patched", "registered", "encoded", "pooled"}) =>
              /\ vit.image_size % vit.patch_size = 0
              /\ vit.register = (IF vit.pool_type = "tok" THEN vit.register_arg + 1
                                 ELSE vit.register_arg)
              /\ vit.seq_length = side * side
        /\ past({"patched", "registered", "encoded", "pooled"}) =>
              /\ Len(vit.patches) = side * side
              /\ \A i \in DOMAIN vit.patches : vit.patches[i].kind = "patch"
        /\ past({"registered", "encoded", "pooled"}) =>
              /\ Len(vit.encoder_in) = side * side + vit.register
              /\ Cardinality({i \in DOMAIN vit.encoder_in :
                                 vit.encoder_in[i].kind = "reg"}) = vit.register
        /\ (past({"pooled"}) /\ vit.pool_type = "gap") =>
              /\ Len(vit.pooled) = side * side
              /\ \A i \in DOMAIN vit.pooled : vit.pooled[i].kind = "patch"
              /\ \A p \in 1 .. (side * side) :
                    Cardinality({i \in DOMAIN vit.pooled :
                                    vit.pooled[i] = [kind |-> "patch", idx |-> p]}) = 1

\* a 4 x 4 image in 2 x 2 patches with two registers and "gap" pooling
C13_Witness ==
    /\ vit.pc = "pooled"
    /\ vit.image_size = 4 /\ vit.patch_size = 2
    /\ vit.register_arg = 2 /\ vit.pool_type = "gap"
    /\ Len(vit.encoder_in) = 6
    /\ vit.encoder_in[1].kind = "reg" /\ vit.encoder_in[2].kind = "reg"
    /\ Len(vit.pooled) = 4

(***************************************************************************)
(* validate() on the processes of a group (SpecVal): lines 659-726, with   *)
(* the validation sampler and loader of lines 441-458.  The data set is a  *)
(* sequence of samples, each given by the position of its true class among *)
(* the model's predictions; every process holds the same model.            *)
(***************************************************************************)
\* the true class is predicted first, within the first five, or after them
Outcomes == {1, 3, 6}

\* accuracies and losses are kept in twelfths, so that the mean over a chunk of
\* 1, 2, 3 or 4 samples is an integer
AccUnit == 12

\* lines 811-825: the share of the chunk whose true class is among the first k
accuracy(piece, data, k) ==
    (Cardinality({i \in DOMAIN piece : data[piece[i] + 1] <= k}) * AccUnit)
        \div Len(piece)

\* simple_vit.py lines 274-276: the mean loss of the chunk
RECURSIVE LossSum(_, _)
LossSum(piece, data) ==
    IF piece = << >> THEN 0
    ELSE (data[Head(piece) + 1] - 1) + LossSum(Tail(piece), data)

MeanLoss(piece, data) == (LossSum(piece, data) * AccUnit) \div Len(piece)

\* DistributedSampler(val_dataset, shuffle=False, drop_last=True): len(sampler)
SamplerLen(n, world_size) ==
    IF n % world_size # 0 THEN CeilDiv(n - world_size, world_size)
    ELSE CeilDiv(n, world_size)

\* the indices the sampler gives to a rank: rank, rank + world_size, ...
ShareOf(n, world_size, rank) ==
    [k \in 1 .. SamplerLen(n, world_size) |-> rank + (k - 1) * world_size]

\* sampler=None: every index in order
AllIndices(n) == [k \in 1 .. n |-> k - 1]

\* lines 709-710: range(len(sampler) * world_size, len(dataset))
TailRange_Empty(n, world_size) == << >>

TailRange(n, world_size) ==
    [k \in 1 .. (n - SamplerLen(n, world_size) * world_size) |->
        SamplerLen(n, world_size) * world_size + k - 1]

\* a DataLoader without drop_last: batches of batch_size, the last one shorter
LoaderBatches(indices, batch_size) ==
    IF indices = << >> THEN << >> ELSE SplitEvery(indices, batch_size)

RECURSIVE Flatten(_)
Flatten(ss) == IF ss = << >> THEN << >> ELSE Head(ss) \o Flatten(Tail(ss))

\* lines 666-669: every loader batch is cut by chunk(prefetch_factor, ...) and
\* every part again by chunk(accum_freq, ...)
Pieces(batches, prefetch_factor, accum_freq) ==
    LET parts == Flatten([i \in DOMAIN batches |-> chunk(prefetch_factor, batches[i])])
    IN  Flatten([i \in DOMAIN parts |-> chunk(accum_freq, parts[i])])

\* lines 691-694
NewMeters == [losses |-> reset_meter, top1 |-> reset_meter, top5 |-> reset_meter]

\* lines 679-682
UpdateMeters(ms, piece, data) ==
    [losses |-> update(ms.losses, MeanLoss(piece, data), Len(piece)),
     top1   |-> update(ms.top1, accuracy(piece, data, 1), Len(piece)),
     top5   |-> update(ms.top5, accuracy(piece, data, 5), Len(piece))]

\* lines 661-689
RECURSIVE run_validate(_, _, _)
run_validate(ms, pieces, data) ==
    IF pieces = << >> THEN ms
    ELSE run_validate(UpdateMeters(ms, Head(pieces), data), Tail(pieces), data)

\* lines 704-706: the meters validate() all-reduces, in this order
ReducedMeters_WithLoss == <<"losses", "top1", "top5">>

ReducedMeters == <<"top1", "top5">>

ValProcs(cfg) == IF cfg.distributed THEN Ranks ELSE {0}
ValWorld == Cardinality(Ranks)

ValConfigs ==
    UNION {[n : {n}, data : [1 .. n -> Outcomes], distributed : BOOLEAN,
            batch_size : {1, 2}, prefetch_factor : {1, 2}, accum_freq : {1, 2}] :
              n \in 0 .. MaxValSet}

InitVal ==
    /\ \E cfg \in ValConfigs :
          validation =
              [cfg |-> cfg,
               pc |-> [p \in ValProcs(cfg) |-> "start"],
               meters |-> [p \in ValProcs(cfg) |-> NewMeters],
               reducing |-> [p \in ValProcs(cfg) |-> 1],
               wire |-> [m \in {"losses", "top1", "top5"} |-> [p \in Ranks |-> NoTensor]],
               result |-> [p \in ValProcs(cfg) |-> Zero]]
    /\ RunIdle /\ TopoIdle /\ MeterIdle /\ StepIdle /\ VitIdle

\* lines 691-703: the pass over the process's own loader
ValMainPass(p) ==
    /\ validation.pc[p] = "start"
    /\ LET cfg == validation.cfg
           idx == IF cfg.distributed THEN ShareOf(cfg.n, ValWorld, p)
                  ELSE AllIndices(cfg.n)
           batches == LoaderBatches(idx, cfg.prefetch_factor * cfg.batch_size)
       IN  validation' = [validation EXCEPT
              !.meters[p] = run_validate(NewMeters,
                               Pieces(batches, cfg.prefetch_factor, cfg.accum_freq),
                               cfg.data),
              !.pc[p] = IF cfg.distributed THEN "reduce" ELSE "tail"]
    /\ UNCHANGED <<runVars, topoVars, meterVars, trainer, vit>>

\* lines 705-706, 765-766: the process enters the collective of its next meter
ValReduceEnter(p) ==
    /\ validation.pc[p] = "reduce"
    /\ LET name == ReducedMeters[validation.reducing[p]]
       IN  validation' = [validation EXCEPT
              !.wire[name][p] = Contribution(validation.meters[p][name]),
              !.pc[p] = "waiting"]
    /\ UNCHANGED <<runVars, topoVars, meterVars, trainer, vit>>

\* lines 766-768: every rank has entered; the call returns the total
ValReduceReturn(p) ==
    /\ validation.pc[p] = "waiting"
    /\ LET name  == ReducedMeters[validation.reducing[p]]
           w     == validation.wire[name]
           total == Reduced(w)
       IN  /\ \A q \in Ranks : w[q] # NoTensor
           /\ validation' = [validation EXCEPT
                 !.meters[p][name] = all_reduce(@, total),
                 !.reducing[p] = @ + 1,
                 !.pc[p] = IF total[2] = 0 THEN "failed"
                           ELSE IF validation.reducing[p] < Len(ReducedMeters)
                           THEN "reduce" ELSE "tail"]
    /\ UNCHANGED <<runVars, topoVars, meterVars, trainer, vit>>

\* lines 708-726: the auxiliary pass over the tail the sampler dropped, on every
\* process, and the return of top1.avg
ValTail(p) ==
    /\ validation.pc[p] = "tail"
    /\ LET cfg == validation.cfg
           aux == IF cfg.distributed /\ SamplerLen(cfg.n, ValWorld) * ValWorld < cfg.n
                  THEN LoaderBatches(TailRange(cfg.n, ValWorld), cfg.batch_size)
                  ELSE << >>
           ms  == run_validate(validation.meters[p],
                               Pieces(aux, cfg.prefetch_factor, cfg.accum_freq),
                               cfg.data)
       IN  validation' = [validation EXCEPT
              !.meters[p] = ms,
              !.result[p] = ms.top1.avg,
              !.pc[p] = "done"]
    /\ UNCHANGED <<runVars, topoVars, meterVars, trainer, vit>>

NextVal ==
    \/ \E p \in DOMAIN validation.pc : ValMainPass(p)
    \/ \E p \in DOMAIN validation.pc : ValReduceEnter(p)
    \/ \E p \in DOMAIN validation.pc : ValReduceReturn(p)
    \/ \E p \in DOMAIN validation.pc : ValTail(p)

SpecVal == InitVal /\ [][NextVal]_vars

\* totals over the whole validation set
RECURSIVE DataHits(_, _)
DataHits(data, k) ==
    IF data = << >> THEN 0
    ELSE (IF Head(data) <= k THEN 1 ELSE 0) + DataHits(Tail(data), k)

RECURSIVE DataLoss(_)
DataLoss(data) == IF data = << >> THEN 0 ELSE (Head(data) - 1) + DataLoss(Tail(data))

ValDone == {p \in DOMAIN validation.pc : validation.pc[p] = "done"}

\* the meter of a process that returned accounts for every sample once
OverAllSamples(m, total) ==
    /\ m.count = validation.cfg.n
    /\ m.sum = AccUnit * total
    /\ (validation.cfg.n > 0 => m.avg = Ratio(AccUnit * total, validation.cfg.n))

\* C15: when distributed, the loss, top-1 and top-5 meters are all-reduced
\* after the main pass, so at the end of validate their averages are the same
\* on every process and are taken over all processes' samples.
C15_AllMetersReduced ==
    validation.cfg.distributed =>
        /\ \A p, q \in ValDone :
              /\ validation.meters[p].losses.avg = validation.meters[q].losses.avg
              /\ validation.meters[p].top1.avg = validation.meters[q].top1.avg
              /\ validation.meters[p].top5.avg = validation.meters[q].top5.avg
        /\ \A p \in ValDone :
              /\ OverAllSamples(validation.meters[p].losses, DataLoss(validation.cfg.data))
              /\ OverAllSamples(validation.meters[p].top1, DataHits(validation.cfg.data, 1))
              /\ OverAllSamples(validation.meters[p].top5, DataHits(validation.cfg.data, 5))

\* the top-1 average validate returns counts every sample once and is the same
\* on every process
Top1OverAllSamples ==
    /\ \A p \in ValDone :
          /\ OverAllSamples(validation.meters[p].top1,
                            DataHits(validation.cfg.data, 1))
          /\ validation.result[p] = validation.meters[p].top1.avg
    /\ \A p, q \in ValDone : validation.result[p] = validation.result[q]

\* C16 as stated: for every data set size, world size, batch size, prefetch
\* factor and accum_freq, validate returns a top-1 average that counts every
\* validation sample exactly once, the same on every process.
C16_EverySize ==
    /\ \A p \in DOMAIN validation.pc : validation.pc[p] # "failed"
    /\ Top1OverAllSamples

\* C16 as amended: the same for every data set with at least one sample per
\* process (and totals that float32 holds exactly, at most 2^24).
C16_EverySampleOnce ==
    /\ (validation.cfg.distributed => validation.cfg.n >= ValWorld) =>
          \A p \in DOMAIN validation.pc : validation.pc[p] # "failed"
    /\ validation.cfg.n * AccUnit <= F32Exact => Top1OverAllSamples

\* three samples on two ranks: one each from the sampler, the third from the
\* tail pass, which both processes run
C16_Witness ==
    /\ validation.cfg.distributed
    /\ validation.cfg.n = 3
    /\ validation.cfg.data = <<1, 6, 1>>
    /\ ValDone = Ranks
    /\ validation.meters[0].top1.count = 3
    /\ validation.meters[1].top1.sum = 2 * AccUnit
    /\ validation.result[0] = Ratio(2 * AccUnit, 3)

\* C21: for every batch of at least n samples chunk(n, ...) yields exactly n
\* sub-chunks, in order, whose concatenation is the batch; for n = 1 it yields
\* the batch once, unchanged.
C21_ChunkCount ==
    (trainer.step >= 1 /\ Len(trainer.batch) >= trainer.accum_freq) =>
        LET pieces == chunk(trainer.accum_freq, trainer.batch)
        IN  /\ Len(pieces) = trainer.accum_freq
            /\ Flatten(pieces) = trainer.batch
            /\ (trainer.accum_freq = 1 => pieces = <<trainer.batch>>)
            /\ ((trainer.pc = "chunks" /\ trainer.calls = << >>) =>
                   trainer.chunks = pieces)

====
